---- MODULE Spec2Model ----
(***************************************************************************)
(* Model of the live server session of the server detail view             *)
(* (frontend/src/app/dashboard/server/[name]/page.tsx): the WebSocket     *)
(* connect effect with its onopen / onmessage / onclose handlers, the     *)
(* reconnect timer, the effect cleanup, and the user operations           *)
(* startServer / stopServer / restartServer / sendWebSocketCommand /      *)
(* acceptEula.  Each handler is one atomic action (one JavaScript task).  *)
(***************************************************************************)
EXTENDS Integers, Sequences, FiniteSets, TLC

\* ---------------------------------------------------------------- bounds
MaxChan == 2
MaxFrames == 2
MaxSent == 1
MaxListing == 3
MaxChanges == 1
MaxPending == 2

MaxRecords == 2

\* ------------------------------------------------------- program constants
NormalClosure == 1000

Targets == {"a", "b"}
Chans == 1..MaxChan
\* close codes a close event may carry: the normal closure and one abnormal
\* code (1006, connection lost), standing for every code other than 1000
CloseCodes == {NormalClosure, 1006}

Undefined == "undefined"

\* ServerDetails | null | undefined, as held by the serverDetails state
NullDetails == [kind |-> "null", base |-> "", status |-> "", players |-> ""]
UndefinedDetails == [kind |-> "undefined", base |-> "", status |-> "", players |-> ""]

\* the info snapshot the remote side sends
Details(d) ==
  [kind |-> "obj", base |-> d, status |-> "offline", players |-> "P0"]

\* JavaScript truthiness of the serverDetails state
Truthy(d) == d.kind = "obj"

\* ------------------------------------------------------------ wire frames
KnownTypes == {"console", "info", "status", "player_update", "need_eula",
               "error", "ping", "file_init", "file_update"}

PayloadTypes == {"console", "info", "status", "player_update", "error",
                 "file_init", "file_update"}

PayloadsOf(t) ==
  CASE t = "console" -> {"m1", "m2", Undefined}
    [] t = "info" -> {"D1", Undefined}
    [] t = "status" -> {"online", "offline", "starting", "stopping", Undefined}
    [] t = "player_update" -> {"P2", Undefined}
    [] t = "error" -> {"boom", Undefined}
    [] t = "file_init" -> {"F1", Undefined}
    [] t = "file_update" -> {"F2", Undefined}
    [] OTHER -> {Undefined}

\* raw = "garbage": not JSON; raw = "null": the JSON text null;
\* raw = "obj": a JSON object with the given type and data members
Frames ==
  {[raw |-> "garbage", type |-> "", data |-> Undefined],
   [raw |-> "null", type |-> "", data |-> Undefined]}
  \cup {[raw |-> "obj", type |-> t, data |-> d] :
          <<t, d>> \in UNION {{<<t2, d2>> : d2 \in PayloadsOf(t2)} :
                                t2 \in KnownTypes \cup {"bogus"}}}

\* -------------------------------------------------------------- variables
VARIABLES
  phase,                \* "new" | "mounted" | "unmounted"
  serverName,           \* params.name
  chan,                 \* the WebSocket objects created by the effect
  socket,               \* useState socket: 0 (null) or a channel
  isReconnecting,       \* isReconnectingRef.current
  reconnectTimeoutRef,  \* reconnectTimeoutRef.current: 0 (null) or a timer id
  timers,               \* timers set by setTimeout and not yet fired/cleared
  cleanupWs,            \* ws captured by the cleanup of the last effect run (0: none)
  loading, error, actionInProgress, consoleOutput, serverDetails,
  showEulaModal, files,
  eulaPc,               \* position of the running acceptEula call
  pings,                \* history: ping envelopes received per channel
  consoleRecv,          \* history: payloads of well-formed console envelopes
  rejected,             \* history: a lifecycle action was refused while another was in progress
  inFlight,             \* history: the lifecycle action that set the flag still standing
  nFrames,              \* history: frames delivered so far
  currentPath,          \* FilesExplorer: the directory shown
  editingFile,          \* FilesExplorer: path of the file in the editor, or null
  fileContent,          \* FilesExplorer: the editor buffer
  editorReadOnly,       \* FilesExplorer: the read-only flag of the editor
  clipboard,            \* FilesExplorer: the copy/cut slot
  pending,              \* file-backend calls in flight, with their continuations
  fileRecv,             \* history: types of the file envelopes received
  cutPasted,            \* history: the cut on the clipboard was pasted
  activeTab,            \* the tab of the main view that is shown
  autoScroll,           \* ConsoleOutput: the auto-scroll flag
  scrollTop,            \* ConsoleOutput: scrollTop of the scroll container
  logText               \* the transcript last handed to the browser

vars == <<phase, serverName, chan, socket, isReconnecting, reconnectTimeoutRef,
          timers, cleanupWs, loading, error, actionInProgress, consoleOutput,
          serverDetails, showEulaModal, files, eulaPc, pings, consoleRecv,
          rejected, inFlight, nFrames, currentPath, editingFile, fileContent,
          editorReadOnly, clipboard, pending, fileRecv,
          cutPasted, activeTab, autoScroll, scrollTop, logText>>

stateVars == <<loading, error, actionInProgress, consoleOutput, serverDetails,
               showEulaModal, files>>

\* everything but the FilesExplorer and the calls it has in flight
sessionVars == <<phase, serverName, chan, socket, isReconnecting,
                 reconnectTimeoutRef, timers, cleanupWs, stateVars, eulaPc,
                 pings, consoleRecv, rejected, inFlight, nFrames, fileRecv>>

\* the state of the FilesExplorer component
explorerVars == <<currentPath, editingFile, fileContent, editorReadOnly,
                  clipboard>>

\* a path string is held as the list of its "/"-separated pieces, so that
\* "a/b.txt" is <<"a", "b.txt">>, "a/" is <<"a", "">> and "" is <<"">>;
\* null is the empty list
EmptyPath == <<"">>

NullPath == <<>>

\* TabNavigation.tsx lines 96-105: the initial state of the FilesExplorer
InitFilesExplorer ==
  /\ currentPath = EmptyPath
  /\ editingFile = NullPath
  /\ fileContent = ""
  /\ editorReadOnly = FALSE
  /\ clipboard = [action |-> "", path |-> NullPath]
  /\ pending = <<>>
  /\ fileRecv = <<>>
  /\ cutPasted = FALSE

\* the state of the ConsoleOutput component, the tab that decides whether it
\* is rendered, and the transcript it exports
consoleVars == <<activeTab, autoScroll, scrollTop, logText>>

\* page.tsx line 52, ConsoleOutput.tsx lines 23-26: the state of a view that
\* shows the given tab and has exported nothing
InitConsoleView(tab) ==
  /\ activeTab = tab
  /\ autoScroll = TRUE
  /\ scrollTop = 0
  /\ logText = <<>>

NoChan == [readyState |-> "NONE", target |-> "", sent |-> <<>>]

Init ==
  /\ phase = "new"
  /\ serverName = "a"
  /\ chan = [c \in Chans |-> NoChan]
  /\ socket = 0
  /\ isReconnecting = FALSE
  /\ reconnectTimeoutRef = 0
  /\ timers = {}
  /\ cleanupWs = 0
  /\ loading = TRUE
  /\ error = ""
  /\ actionInProgress = ""
  /\ consoleOutput = <<>>
  /\ serverDetails = NullDetails
  /\ showEulaModal = FALSE
  /\ files = "[]"
  /\ eulaPc = "idle"
  /\ pings = [c \in Chans |-> 0]
  /\ consoleRecv = <<>>
  /\ rejected = FALSE
  /\ inFlight = ""
  /\ nFrames = 0
  /\ InitFilesExplorer
  /\ InitConsoleView("overview")

\* ------------------------------------------------------- WebSocket object
NumChans == Cardinality({c \in Chans : chan[c].readyState # "NONE"})

\* messages the user operations have put on the wire, over all channels
RECURSIVE CountSent(_, _)
CountSent(ch, n) ==
  IF n = 0 THEN 0
  ELSE Len(SelectSeq(ch[n].sent, LAMBDA m : m # "pong")) + CountSent(ch, n - 1)

UserSent == CountSent(chan, MaxChan)

Live(c) == chan[c].readyState \in {"CONNECTING", "OPEN"}

\* what WebSocket.send does in each ready state: it throws while CONNECTING,
\* transmits while OPEN and silently discards the data otherwise
WsSendOutcome(rs) ==
  CASE rs = "CONNECTING" -> "threw"
    [] rs = "OPEN" -> "sent"
    [] OTHER -> "dropped"

WsSend(ch, c, msg) ==
  IF WsSendOutcome(ch[c].readyState) = "sent"
    THEN [ch EXCEPT ![c].sent = Append(@, msg)]
    ELSE ch

\* React ignores state updates of an unmounted component
SetState(cur, new) == IF phase = "mounted" THEN new ELSE cur

\* ------------------------------------------------------ the console view
\* page.tsx lines 316-345, 379-421: a ConsoleOutput is rendered in the main
\* view (loading over, no error set, the snapshot there) on the tabs
\* overview and console
ConsoleShownOf(ph, ld, er, sd, tab) ==
  /\ ph = "mounted" /\ ~ld /\ er = "" /\ Truthy(sd)
  /\ tab \in {"overview", "console"}

ConsoleShown == ConsoleShownOf(phase, loading, error, serverDetails, activeTab)

\* page.tsx lines 316-345: what the page renders; the loading gate comes
\* first
View ==
  IF loading THEN "loading"
  ELSE IF error # "" \/ ~Truthy(serverDetails) THEN "error"
  ELSE "main"

\* ConsoleOutput.tsx lines 121-123: heights of the scroll container and of
\* one console line, in display units
ClientHeight == 100

LineHeight == 50

\* scrollHeight of the container for a console buffer
ScrollHeight(buffer) ==
  IF Len(buffer) * LineHeight > ClientHeight
    THEN Len(buffer) * LineHeight ELSE ClientHeight

\* the largest scrollTop the browser allows; a larger value is clamped to it
MaxScrollTop(buffer) == ScrollHeight(buffer) - ClientHeight

\* ConsoleOutput.tsx lines 24, 28-33: what the render after a step of the
\* page does to the console view.  A ConsoleOutput that is not rendered has
\* no state; one that is mounted starts with auto-scroll on; the effect runs
\* at mount and whenever consoleOutput or autoScroll has changed.
ConsoleRender ==
  /\ UNCHANGED <<activeTab, logText>>
  /\ IF ~ConsoleShownOf(phase', loading', error', serverDetails', activeTab)
       THEN /\ autoScroll' = TRUE
            /\ scrollTop' = 0
       ELSE IF ~ConsoleShown
         THEN /\ autoScroll' = TRUE
              /\ scrollTop' = MaxScrollTop(consoleOutput')
         ELSE /\ autoScroll' = autoScroll
              /\ scrollTop' = IF autoScroll /\ consoleOutput' # consoleOutput
                                THEN MaxScrollTop(consoleOutput')
                                ELSE scrollTop

\* ------------------------------------------------------------ the effect
\* line 60: the guard of the effect body
EffectSkips == socket # 0 \/ isReconnecting

\* lines 153-160: the cleanup returned by the last effect run that got past
\* the guard (an effect run that returned early registers no cleanup)
CleanupTimers ==
  IF cleanupWs # 0 /\ reconnectTimeoutRef # 0
    THEN timers \ {reconnectTimeoutRef}
    ELSE timers

CleanupChan ==
  IF cleanupWs # 0 /\ chan[cleanupWs].readyState = "OPEN"
    THEN [chan EXCEPT ![cleanupWs].readyState = "CLOSING"]
    ELSE chan

\* lines 58-79: the effect body run for target t on the channels ch
ConnectEffect(ch, t) ==
  IF EffectSkips
    THEN /\ chan' = ch
         /\ cleanupWs' = 0
    ELSE /\ chan' = [ch EXCEPT ![NumChans + 1] =
                       [readyState |-> "CONNECTING", target |-> t,
                        sent |-> <<>>]]
         /\ cleanupWs' = NumChans + 1

\* view activation: first run of the effect
Mount ==
  /\ phase = "new"
  /\ phase' = "mounted"
  /\ ConnectEffect(chan, serverName)
  /\ UNCHANGED <<serverName, socket, isReconnecting, reconnectTimeoutRef,
                 timers, stateVars, eulaPc, pings, consoleRecv, rejected, inFlight, nFrames>>
  /\ UNCHANGED <<explorerVars, pending, fileRecv, cutPasted>>
  /\ ConsoleRender

\* params.name changes on the mounted view: cleanup of the previous run,
\* then the effect body for the new target, in one commit
ChangeTarget(t) ==
  /\ phase = "mounted"
  /\ t # serverName
  /\ EffectSkips \/ NumChans < MaxChan
  /\ serverName' = t
  /\ timers' = CleanupTimers
  /\ ConnectEffect(CleanupChan, t)
  /\ UNCHANGED <<phase, socket, isReconnecting, reconnectTimeoutRef,
                 stateVars, eulaPc, pings, consoleRecv, rejected, inFlight, nFrames>>
  /\ UNCHANGED <<explorerVars, pending, fileRecv, cutPasted>>
  /\ ConsoleRender

\* view deactivation: the cleanup alone
Unmount ==
  /\ phase = "mounted"
  /\ phase' = "unmounted"
  /\ timers' = CleanupTimers
  /\ chan' = CleanupChan
  /\ cleanupWs' = 0
  /\ UNCHANGED <<serverName, socket, isReconnecting, reconnectTimeoutRef,
                 stateVars, eulaPc, pings, consoleRecv, rejected, inFlight, nFrames>>
  /\ UNCHANGED <<explorerVars, pending, fileRecv, cutPasted>>
  /\ ConsoleRender

\* ----------------------------------------------------- channel handlers
\* lines 75-79: ws.onopen
onopen(c) ==
  /\ chan[c].readyState = "CONNECTING"
  /\ chan' = [chan EXCEPT ![c].readyState = "OPEN"]
  /\ socket' = SetState(socket, c)
  /\ isReconnecting' = FALSE
  /\ UNCHANGED <<phase, serverName, reconnectTimeoutRef, timers, cleanupWs,
                 stateVars, eulaPc, pings, consoleRecv, rejected, inFlight, nFrames>>
  /\ UNCHANGED <<explorerVars, pending, fileRecv, cutPasted>>
  /\ ConsoleRender

\* variant: the close code is not looked at
SchedulesReconnectAnyCode(code) == ~isReconnecting

\* line 137: the condition under which onclose schedules a reconnect
SchedulesReconnect(code) == code # NormalClosure /\ ~isReconnecting

\* lines 130-146: ws.onclose.  A channel that fails while CONNECTING reports
\* an abnormal code; an OPEN or CLOSING channel reports either code.
onclose(c, code) ==
  /\ chan[c].readyState \in {"CONNECTING", "OPEN", "CLOSING"}
  /\ chan[c].readyState = "CONNECTING" => code # NormalClosure
  /\ chan' = [chan EXCEPT ![c].readyState = "CLOSED"]
  /\ socket' = SetState(socket, 0)
  /\ IF SchedulesReconnect(code)
       THEN /\ isReconnecting' = TRUE
            /\ reconnectTimeoutRef' = reconnectTimeoutRef + 1
            /\ timers' = timers \cup {reconnectTimeoutRef + 1}
       ELSE UNCHANGED <<isReconnecting, reconnectTimeoutRef, timers>>
  /\ UNCHANGED <<phase, serverName, cleanupWs, stateVars, eulaPc, pings,
                 consoleRecv, rejected, inFlight, nFrames>>
  /\ UNCHANGED <<explorerVars, pending, fileRecv, cutPasted>>
  /\ ConsoleRender

\* lines 140-144: the reconnect timer's callback; the connect effect depends
\* on serverName only (line 162), so setSocket(null) does not re-run it
ReconnectTimerFires(t) ==
  /\ t \in timers
  /\ timers' = timers \ {t}
  /\ isReconnecting' = FALSE
  /\ socket' = SetState(socket, 0)
  /\ UNCHANGED <<phase, serverName, chan, reconnectTimeoutRef, cleanupWs,
                 stateVars, eulaPc, pings, consoleRecv, rejected, inFlight, nFrames>>
  /\ UNCHANGED <<explorerVars, pending, fileRecv, cutPasted>>
  /\ ConsoleRender

\* lines 81-128: ws.onmessage
\* JSON.parse throws on text that is not JSON; data.type throws on null
DispatchType(f) == IF f.raw = "obj" THEN f.type ELSE "throws"

\* lines 85-88
NewConsoleOutput(f) ==
  IF DispatchType(f) = "console"
    THEN Append(consoleOutput, f.data)
    ELSE consoleOutput

\* variant: the status and player_update patches do not spread the previous
\* snapshot
NewServerDetailsNoSpread(f) ==
  CASE DispatchType(f) = "info" ->
         IF f.data = Undefined THEN UndefinedDetails ELSE Details(f.data)
    [] DispatchType(f) = "status" ->
         IF Truthy(serverDetails)
           THEN [kind |-> "obj", base |-> "", status |-> f.data, players |-> ""]
           ELSE NullDetails
    [] DispatchType(f) = "player_update" ->
         IF Truthy(serverDetails)
           THEN [kind |-> "obj", base |-> "", status |-> "", players |-> f.data]
           ELSE NullDetails
    [] OTHER -> serverDetails

\* lines 89-92, 103-107, 112-116
NewServerDetails(f) ==
  CASE DispatchType(f) = "info" ->
         IF f.data = Undefined THEN UndefinedDetails ELSE Details(f.data)
    [] DispatchType(f) = "status" ->
         IF Truthy(serverDetails)
           THEN [serverDetails EXCEPT !.status = f.data]
           ELSE NullDetails
    [] DispatchType(f) = "player_update" ->
         IF Truthy(serverDetails)
           THEN [serverDetails EXCEPT !.players = f.data]
           ELSE NullDetails
    [] OTHER -> serverDetails

\* line 91
NewLoading(f) == IF DispatchType(f) = "info" THEN FALSE ELSE loading

\* lines 96-98
NewShowEulaModal(f) ==
  IF DispatchType(f) = "need_eula" THEN TRUE ELSE showEulaModal

\* lines 99-102: data.data || "An error occurred"
NewError(f) ==
  IF DispatchType(f) = "error"
    THEN IF f.data \in {"", Undefined} THEN "An error occurred" ELSE f.data
    ELSE error

\* variant: every status envelope clears the action flag
ClearsActionAnyStatus(f) == DispatchType(f) = "status"

\* lines 108-110
ClearsAction(f) ==
  DispatchType(f) = "status" /\ f.data \in {"online", "offline"}

NewActionInProgress(f) == IF ClearsAction(f) THEN "" ELSE actionInProgress

\* lines 117-123
NewFiles(f) ==
  IF DispatchType(f) \in {"file_init", "file_update"} THEN f.data ELSE files

\* variant: the pong goes out on the most recently created channel
PongChannelLatest(c) == NumChans

\* lines 93-95: the pong goes out on the ws the frame arrived on
PongChannel(c) == c

AfterPing(c, f) ==
  IF DispatchType(f) = "ping" THEN WsSend(chan, PongChannel(c), "pong") ELSE chan

WellFormedConsole(f) ==
  f.raw = "obj" /\ f.type = "console" /\ f.data # Undefined

\* a message event is delivered only while the channel is OPEN
onmessage(c, f) ==
  /\ chan[c].readyState = "OPEN"
  /\ nFrames < MaxFrames
  /\ nFrames' = nFrames + 1
  /\ consoleOutput' = SetState(consoleOutput, NewConsoleOutput(f))
  /\ serverDetails' = SetState(serverDetails, NewServerDetails(f))
  /\ loading' = SetState(loading, NewLoading(f))
  /\ showEulaModal' = SetState(showEulaModal, NewShowEulaModal(f))
  /\ error' = SetState(error, NewError(f))
  /\ actionInProgress' = SetState(actionInProgress, NewActionInProgress(f))
  /\ files' = SetState(files, NewFiles(f))
  /\ chan' = AfterPing(c, f)
  /\ pings' = IF DispatchType(f) = "ping"
                THEN [pings EXCEPT ![c] = @ + 1] ELSE pings
  /\ consoleRecv' = IF phase = "mounted" /\ WellFormedConsole(f)
                      THEN Append(consoleRecv, f.data) ELSE consoleRecv
  /\ UNCHANGED <<phase, serverName, socket, isReconnecting,
                 reconnectTimeoutRef, timers, cleanupWs, eulaPc, rejected>>
  /\ inFlight' = IF actionInProgress' = "" THEN "" ELSE inFlight
  /\ fileRecv' = IF phase = "mounted"
                      /\ DispatchType(f) \in {"file_init", "file_update"}
                   THEN Append(fileRecv, f.type) ELSE fileRecv
  /\ UNCHANGED <<explorerVars, pending, cutPasted>>
  /\ ConsoleRender

\* ------------------------------------------------------ user operations
\* lines 316-345: the controls exist only in the main view
MainView ==
  phase = "mounted" /\ ~loading /\ error = "" /\ Truthy(serverDetails)

\* ServerControls.tsx lines 24-49: the disabled attributes of the buttons
ButtonEnabled(action) ==
  CASE action = "start" ->
         serverDetails.status \notin {"online", "starting", "stopping"}
    [] action = "stop" -> serverDetails.status = "online"
    [] action = "restart" -> serverDetails.status = "online"
    [] OTHER -> FALSE

\* variant: the guard looks at the socket only
LifecycleRejectedSocketOnly == socket = 0

\* line 197 (210, 223): the guard of a lifecycle action
LifecycleRejected == actionInProgress # "" \/ socket = 0

\* lines 196-233: startServer / stopServer / restartServer share one body
Lifecycle(action, flag, failure) ==
  /\ MainView
  /\ ButtonEnabled(action)
  /\ IF LifecycleRejected
       THEN /\ rejected' = (rejected \/ actionInProgress # "")
            /\ UNCHANGED <<chan, actionInProgress, error, inFlight>>
       ELSE LET outcome == WsSendOutcome(chan[socket].readyState) IN
            /\ outcome = "sent" => UserSent < MaxSent
            /\ chan' = WsSend(chan, socket, action)
            /\ actionInProgress' = IF outcome = "threw" THEN "" ELSE flag
            /\ error' = IF outcome = "threw" THEN failure ELSE error
            /\ rejected' = rejected
            /\ inFlight' = IF outcome = "threw" THEN "" ELSE action
  /\ UNCHANGED <<phase, serverName, socket, isReconnecting,
                 reconnectTimeoutRef, timers, cleanupWs, loading,
                 consoleOutput, serverDetails, showEulaModal, files, eulaPc,
                 pings, consoleRecv, nFrames>>
  /\ UNCHANGED <<explorerVars, pending, fileRecv, cutPasted>>
  /\ ConsoleRender

startServer == Lifecycle("start", "starting", "Failed to start server")

stopServer == Lifecycle("stop", "stopping", "Failed to stop server")

restartServer == Lifecycle("restart", "restarting", "Failed to restart server")

\* lines 235-240; ConsoleOutput.tsx lines 242-247: the input and the send
\* button are disabled unless the server is online
sendWebSocketCommand ==
  /\ MainView
  /\ serverDetails.status = "online"
  /\ IF socket # 0 /\ chan[socket].readyState = "OPEN"
       THEN /\ UserSent < MaxSent
            /\ chan' = WsSend(chan, socket, "command")
       ELSE /\ chan' = chan
  /\ UNCHANGED <<phase, serverName, socket, isReconnecting,
                 reconnectTimeoutRef, timers, cleanupWs, stateVars, eulaPc,
                 pings, consoleRecv, rejected, inFlight, nFrames>>
  /\ UNCHANGED <<explorerVars, pending, fileRecv, cutPasted>>
  /\ ConsoleRender

\* lines 171-194: acceptEula, one call in flight at a time.
\* lines 502-506: the Accept button is disabled while accepting
acceptEula ==
  /\ MainView
  /\ showEulaModal
  /\ actionInProgress # "accepting_eula"
  /\ eulaPc = "idle"
  /\ actionInProgress' = "accepting_eula"
  /\ eulaPc' = "posting"
  /\ UNCHANGED <<phase, serverName, chan, socket, isReconnecting,
                 reconnectTimeoutRef, timers, cleanupWs, loading, error,
                 consoleOutput, serverDetails, showEulaModal, files, pings,
                 consoleRecv, rejected, inFlight, nFrames>>
  /\ UNCHANGED <<explorerVars, pending, fileRecv, cutPasted>>
  /\ ConsoleRender

\* lines 174-186: the POST resolved
eulaPostResolved ==
  /\ eulaPc = "posting"
  /\ showEulaModal' = SetState(showEulaModal, FALSE)
  /\ eulaPc' = "waiting"
  /\ UNCHANGED <<phase, serverName, chan, socket, isReconnecting,
                 reconnectTimeoutRef, timers, cleanupWs, loading, error,
                 actionInProgress, consoleOutput, serverDetails, files, pings,
                 consoleRecv, rejected, inFlight, nFrames>>
  /\ UNCHANGED <<explorerVars, pending, fileRecv, cutPasted>>
  /\ ConsoleRender

\* lines 186-188: the one-second wait is over
eulaAccepted ==
  /\ eulaPc = "waiting"
  /\ actionInProgress' = SetState(actionInProgress, "")
  /\ eulaPc' = "idle"
  /\ UNCHANGED <<phase, serverName, chan, socket, isReconnecting,
                 reconnectTimeoutRef, timers, cleanupWs, loading, error,
                 consoleOutput, serverDetails, showEulaModal, files, pings,
                 consoleRecv, rejected, nFrames>>
  /\ inFlight' = IF actionInProgress' = "" THEN "" ELSE inFlight
  /\ UNCHANGED <<explorerVars, pending, fileRecv, cutPasted>>
  /\ ConsoleRender

\* lines 189-193: the POST rejected
eulaPostRejected ==
  /\ eulaPc = "posting"
  /\ error' = SetState(error, "Failed to accept EULA")
  /\ actionInProgress' = SetState(actionInProgress, "")
  /\ eulaPc' = "idle"
  /\ UNCHANGED <<phase, serverName, chan, socket, isReconnecting,
                 reconnectTimeoutRef, timers, cleanupWs, loading,
                 consoleOutput, serverDetails, showEulaModal, files, pings,
                 consoleRecv, rejected, nFrames>>
  /\ inFlight' = IF actionInProgress' = "" THEN "" ELSE inFlight
  /\ UNCHANGED <<explorerVars, pending, fileRecv, cutPasted>>
  /\ ConsoleRender

\* lines 493-500: the Decline button
declineEula ==
  /\ MainView
  /\ showEulaModal
  /\ actionInProgress # "accepting_eula"
  /\ showEulaModal' = FALSE
  /\ UNCHANGED <<phase, serverName, chan, socket, isReconnecting,
                 reconnectTimeoutRef, timers, cleanupWs, loading, error,
                 actionInProgress, consoleOutput, serverDetails, files,
                 eulaPc, pings, consoleRecv, rejected, inFlight, nFrames>>
  /\ UNCHANGED <<explorerVars, pending, fileRecv, cutPasted>>
  /\ ConsoleRender

\* ------------------------------------------------- the files explorer
\* size?: number | null -- the value of an absent or null size
NullSize == -1

\* TabNavigation.tsx line 174: the size above which a file is not opened
MaxReadableSize == 5 * 1024 * 1024

\* the file and directory names of the model
Names == {"a", "D", "b.txt", "c.txt", "log", "w.zip", "big.log", "edge.log",
          "N.TXT"}

\* name.split("."): the "."-separated pieces of a name
DotPieces(name) ==
  CASE name = "b.txt" -> <<"b", "txt">>
    [] name = "c.txt" -> <<"c", "txt">>
    [] name = "w.zip" -> <<"w", "zip">>
    [] name = "big.log" -> <<"big", "log">>
    [] name = "edge.log" -> <<"edge", "log">>
    [] name = "N.TXT" -> <<"N", "TXT">>
    [] OTHER -> <<name>>

\* String.prototype.toLowerCase on the pieces of the names of the model
ToLowerCase(piece) ==
  CASE piece = "TXT" -> "txt"
    [] piece = "N" -> "n"
    [] piece = "D" -> "d"
    [] OTHER -> piece

\* String.prototype.localeCompare: the names of the model in collation
\* order (letters compare without regard to case first; "." sorts before
\* every letter)
CollationOrder ==
  <<"a", "b.txt", "big.log", "c.txt", "D", "edge.log", "log", "N.TXT", "w.zip">>

CollationRank(name) ==
  CHOOSE i \in DOMAIN CollationOrder : CollationOrder[i] = name

LocaleCompare(x, y) ==
  IF CollationRank(x) < CollationRank(y) THEN -1
  ELSE IF CollationRank(x) > CollationRank(y) THEN 1 ELSE 0

\* path.split("/").filter(Boolean)
Parts(path) == SelectSeq(path, LAMBDA piece : piece # "")

\* parts.join("/")
Join(parts) == IF parts = <<>> THEN EmptyPath ELSE parts

\* !path for a string or null
Falsy(path) == path \in {NullPath, EmptyPath}

\* path.split("/").pop() || fallback
Basename(path, fallback) ==
  IF path[Len(path)] = "" THEN fallback ELSE path[Len(path)]

\* lines 127-134: the node created for parts[index] of an entry
Node(file, parts, index) ==
  IF "modified" \in DOMAIN file
    THEN [name |-> parts[index],
          path |-> Join(SubSeq(parts, 1, index)),
          type |-> IF index = Len(parts) THEN file.type ELSE "directory",
          size |-> IF index = Len(parts) THEN file.size ELSE NullSize,
          modified |-> file.modified]
    ELSE [name |-> parts[index],
          path |-> Join(SubSeq(parts, 1, index)),
          type |-> IF index = Len(parts) THEN file.type ELSE "directory",
          size |-> IF index = Len(parts) THEN file.size ELSE NullSize]

\* The tree is held flat, as the list of its nodes in creation order; the
\* children of a node are the nodes one piece below its path, in that order
\* (Object.values lists the keys of the model, none of which is
\* integer-like, in insertion order).
HasNode(tree, parts) == \E i \in DOMAIN tree : tree[i].path = Join(parts)

\* lines 125-137: parts.forEach, from index on
RECURSIVE AddParts(_, _, _, _)
AddParts(tree, file, parts, index) ==
  IF index > Len(parts) THEN tree
  ELSE AddParts(IF HasNode(tree, SubSeq(parts, 1, index))
                  THEN tree
                  ELSE Append(tree, Node(file, parts, index)),
                file, parts, index + 1)

\* lines 121-138: files.forEach, from entry i on
RECURSIVE BuildFrom(_, _, _)
BuildFrom(tree, fs, i) ==
  IF i > Len(fs) THEN tree
  ELSE BuildFrom(AddParts(tree, fs[i], Parts(fs[i].path), 1), fs, i + 1)

\* lines 117-141
buildFileTree(fs) == BuildFrom(<<>>, fs, 1)

fileTree == buildFileTree(files)

Children(tree, parts) ==
  SelectSeq(tree, LAMBDA n : /\ Len(n.path) = Len(parts) + 1
                             /\ SubSeq(n.path, 1, Len(parts)) = parts)

\* lines 179-194
getCurrentFiles(tree, path) ==
  IF Falsy(path) THEN Children(tree, <<>>)
  ELSE LET parts == Parts(path) IN
       IF \A k \in 1..Len(parts) : HasNode(tree, SubSeq(parts, 1, k))
         THEN Children(tree, parts)
         ELSE <<>>

\* variant: the comparator orders by name alone
CompareByName(a, b) == LocaleCompare(a.name, b.name)

\* lines 201-204: the comparator of the sort
Compare(a, b) ==
  IF a.type # b.type
    THEN IF a.type = "directory" THEN -1 ELSE 1
    ELSE LocaleCompare(a.name, b.name)

\* Array.prototype.sort is stable: x goes before the first element it
\* compares less than
Insert(s, x) ==
  LET later == {i \in DOMAIN s : Compare(x, s[i]) < 0}
      pos == IF later = {} THEN Len(s) + 1
             ELSE CHOOSE i \in later : \A j \in later : i <= j
  IN SubSeq(s, 1, pos - 1) \o <<x>> \o SubSeq(s, pos, Len(s))

RECURSIVE SortFrom(_, _, _)
SortFrom(sorted, s, i) ==
  IF i > Len(s) THEN sorted ELSE SortFrom(Insert(sorted, s[i]), s, i + 1)

Sort(s) == SortFrom(<<>>, s, 1)

\* lines 196-204, with an empty name filter
currentFiles == Sort(getCurrentFiles(fileTree, currentPath))

\* lines 146-163
textReadableExts ==
  {"txt", "log", "cfg", "conf", "config", "ini", "json", "yml", "yaml",
   "properties", "csv", "md", "xml", "plugin", "skript", "lang"}

\* lines 165-168
isTextReadable(filename) ==
  LET pieces == DotPieces(filename)
      ext == ToLowerCase(pieces[Len(pieces)])
  IN ext # "" /\ ext \in textReadableExts

\* lines 171-176; file.size is falsy when null, undefined or 0
isReadable(file) ==
  /\ file.type = "file"
  /\ isTextReadable(file.name)
  /\ ~(file.size # NullSize /\ file.size # 0 /\ file.size > MaxReadableSize)

\* line 403: the explorer is shown while no file is in the editor
ExplorerView == MainView /\ activeTab = "files" /\ editingFile = NullPath

EditorView == MainView /\ activeTab = "files" /\ editingFile # NullPath

\* lines 298-301: a click on a directory row
openDirectory(file) ==
  /\ ExplorerView
  /\ file.type = "directory"
  /\ currentPath' = file.path
  /\ UNCHANGED <<editingFile, fileContent, editorReadOnly, clipboard,
                 pending, sessionVars, cutPasted,
                 consoleVars>>

\* lines 315-320, 507-535: a breadcrumb button, for Root (k = 0) or for the
\* first k pieces of the current path
navigateToPath(k) ==
  /\ ExplorerView
  /\ k \in 0..Len(Parts(currentPath))
  /\ currentPath' = Join(SubSeq(Parts(currentPath), 1, k))
  /\ UNCHANGED <<editingFile, fileContent, editorReadOnly, clipboard,
                 pending, sessionVars, cutPasted,
                 consoleVars>>

\* ------------------------------------------------- file-backend calls
\* page.tsx lines 241-314: each callback issues one HTTP request; the call
\* stays in flight, with what its caller does once it resolves, until it is
\* resolved or rejected
CanIssue == Len(pending) < MaxPending

\* what a handler of the explorer can change besides the current directory
handlerState == <<clipboard, editingFile, fileContent, editorReadOnly>>

\* changed (history): whether the handler that issued the call changed the
\* state of the explorer in issuing it
Issue(call, then) ==
  pending' = Append(pending, [call |-> call, then |-> then,
                              changed |-> handlerState' # handlerState])

Settled(i) == SubSeq(pending, 1, i - 1) \o SubSeq(pending, i + 1, Len(pending))

\* the text the remote side holds for a file
RemoteContent(path) ==
  CASE path = <<"c.txt">> -> "text of c.txt"
    [] path = <<"b.txt">> -> "text of b.txt"
    [] OTHER -> "text"

\* what the user types into the editor
EditedContents == {"edited"}

\* line 310
Placeholder == "// Cannot preview this file (binary or too large)"

\* page.tsx lines 261-263
Sentinel ==
  <<"current_directory_super_long_because_empty_string_is_bad_and_also_if_there_were_someone_stupid_enough_to_name_a_folder_like_this_we_need_to_handle_it_properly">>

\* the promise of a call in flight resolves: the rest of the awaiting
\* handler runs (line 308: setFileContent; line 266: setClipboard)
callResolved(i) ==
  /\ i \in DOMAIN pending
  /\ pending' = Settled(i)
  /\ fileContent' = IF pending[i].then = "setFileContent"
                      THEN SetState(fileContent,
                                    RemoteContent(pending[i].call.path))
                      ELSE fileContent
  /\ clipboard' = IF pending[i].then = "clearClipboard"
                    THEN SetState(clipboard, [action |-> "", path |-> NullPath])
                    ELSE clipboard
  /\ UNCHANGED <<currentPath, editingFile, editorReadOnly, sessionVars, cutPasted,
                 consoleVars>>

\* the promise of a call in flight rejects: the awaiting handler is left at
\* its await (no handler but handleDownload has a catch, and downloadFile
\* itself catches first, page.tsx lines 289-291)
callRejected(i) ==
  /\ i \in DOMAIN pending
  /\ pending' = Settled(i)
  /\ UNCHANGED <<explorerVars, sessionVars, cutPasted,
                 consoleVars>>

\* ----------------------------------------------------------- the editor
\* lines 302-311: handleFileClick on a file
FileClick(file) ==
  /\ file.type = "file"
  /\ editingFile' = file.path
  /\ editorReadOnly' = ~isReadable(file)
  /\ fileContent' = IF isReadable(file) THEN fileContent ELSE Placeholder
  /\ clipboard' = clipboard
  /\ IF isReadable(file)
       THEN /\ CanIssue
            /\ Issue([op |-> "read", path |-> file.path], "setFileContent")
       ELSE pending' = pending
  /\ UNCHANGED <<currentPath, sessionVars, cutPasted,
                 consoleVars>>

\* lines 285-296, page.tsx lines 272-292
Download(target) ==
  /\ CanIssue
  /\ UNCHANGED <<explorerVars, sessionVars, cutPasted,
                 consoleVars>>
  /\ Issue([op |-> "download", path |-> target.path], "none")

\* line 590: a click on a file row
handleFileClick(file) == ExplorerView /\ FileClick(file)

\* lines 810-820: the first item of the context menu of a node
contextMenuOpen(file) ==
  /\ ExplorerView
  /\ IF isReadable(file) THEN FileClick(file) ELSE Download(file)

\* lines 868-876: the Download item, shown for a readable file
handleDownload(target) ==
  /\ ExplorerView
  /\ target.type = "file"
  /\ isReadable(target)
  /\ Download(target)

\* line 731-732: typing into the editor, which a read-only textarea refuses
editContent(text) ==
  /\ EditorView
  /\ ~editorReadOnly
  /\ fileContent' = text
  /\ UNCHANGED <<currentPath, editingFile, editorReadOnly, clipboard,
                 pending, sessionVars, cutPasted,
                 consoleVars>>

\* variant: save writes whatever the read-only flag says
SaveWritesAlways == editingFile # NullPath

\* line 323: the guard of the write
SaveWrites == editingFile # NullPath /\ ~editorReadOnly

\* lines 322-329, page.tsx lines 247-249: writeFile is not awaited
handleSave ==
  /\ EditorView
  /\ editingFile' = NullPath
  /\ fileContent' = ""
  /\ editorReadOnly' = FALSE
  /\ clipboard' = clipboard
  /\ IF SaveWrites
       THEN /\ CanIssue
            /\ Issue([op |-> "write", path |-> editingFile,
                      content |-> fileContent], "none")
       ELSE pending' = pending
  /\ UNCHANGED <<currentPath, sessionVars, cutPasted,
                 consoleVars>>

\* lines 703-707, 755-759: the Close and Cancel buttons
closeEditor ==
  /\ EditorView
  /\ editingFile' = NullPath
  /\ fileContent' = ""
  /\ editorReadOnly' = FALSE
  /\ UNCHANGED <<currentPath, clipboard, pending, sessionVars, cutPasted,
                 consoleVars>>

\* ------------------------------------------------- clipboard and files
\* lines 246-249, 821-829: Copy, an item of the context menu of a file
handleCopy(target) ==
  /\ ExplorerView
  /\ target.type = "file"
  /\ clipboard' = [action |-> "copy", path |-> target.path]
  /\ UNCHANGED <<currentPath, editingFile, fileContent, editorReadOnly,
                 pending, sessionVars, consoleVars>>
  /\ cutPasted' = FALSE

\* lines 251-254, 830-836: Cut, an item of the context menu of a file
handleCut(target) ==
  /\ ExplorerView
  /\ target.type = "file"
  /\ clipboard' = [action |-> "cut", path |-> target.path]
  /\ UNCHANGED <<currentPath, editingFile, fileContent, editorReadOnly,
                 pending, sessionVars, consoleVars>>
  /\ cutPasted' = FALSE

\* lines 258-259: `${destinationPath}/${name}`, or name alone
PasteTarget(destinationPath) ==
  LET name == Basename(clipboard.path, "") IN
  IF Falsy(destinationPath) THEN <<name>> ELSE destinationPath \o <<name>>

\* lines 256-269, page.tsx lines 303-314
handlePaste(destinationPath) ==
  /\ ExplorerView
  /\ UNCHANGED <<currentPath, editingFile, fileContent, editorReadOnly,
                 clipboard, sessionVars, consoleVars>>
  /\ IF Falsy(clipboard.path) \/ clipboard.action = ""
       THEN UNCHANGED <<pending, cutPasted>>
       ELSE /\ CanIssue
            /\ IF clipboard.action = "copy"
                 THEN /\ Issue([op |-> "copy", source |-> clipboard.path,
                                destination |-> PasteTarget(destinationPath)],
                               "none")
                      /\ UNCHANGED cutPasted
                 ELSE /\ Issue([op |-> "move", source |-> clipboard.path,
                                destination |-> PasteTarget(destinationPath)],
                               "clearClipboard")
                      /\ cutPasted' = TRUE

\* lines 452-457: the Clear clipboard button
clearClipboard ==
  /\ ExplorerView
  /\ clipboard' = [action |-> "", path |-> NullPath]
  /\ UNCHANGED <<currentPath, editingFile, fileContent, editorReadOnly,
                 pending, sessionVars, cutPasted,
                 consoleVars>>

\* variant: the target directory goes out as it is
UploadTargetAsIs(targetPath) == targetPath

\* page.tsx lines 261-263
UploadTarget(targetPath) ==
  IF Falsy(targetPath) THEN Sentinel ELSE targetPath

\* lines 207-223, page.tsx lines 259-270: a file chosen in the upload dialog
onFileInputChange ==
  /\ ExplorerView
  /\ CanIssue
  /\ UNCHANGED <<explorerVars, sessionVars, cutPasted,
                 consoleVars>>
  /\ Issue([op |-> "upload", target |-> UploadTarget(currentPath)], "none")

\* lines 238-244, page.tsx lines 299-301: Delete, confirmed
handleDelete(target) ==
  /\ ExplorerView
  /\ CanIssue
  /\ UNCHANGED <<explorerVars, sessionVars, cutPasted,
                 consoleVars>>
  /\ Issue([op |-> "delete", path |-> target.path], "none")

\* lines 271-282: Rename, an item of the context menu of a file
handleRename(target, newName) ==
  /\ ExplorerView
  /\ target.type = "file"
  /\ newName # "" /\ newName # target.name
  /\ CanIssue
  /\ UNCHANGED <<explorerVars, sessionVars, cutPasted,
                 consoleVars>>
  /\ Issue([op |-> "move", source |-> target.path,
            destination |->
              Join(SubSeq(target.path, 1, Len(target.path) - 1)
                     \o <<newName>>)],
           "none")

\* name.endsWith(".zip")
EndsWithZip(name) ==
  Len(DotPieces(name)) >= 2 /\ DotPieces(name)[Len(DotPieces(name))] = "zip"

\* page.tsx lines 293-295: { paths, name: paths[0] }
ZipCall(paths) ==
  [op |-> "zip", paths |-> paths,
   name |-> IF paths = <<>> THEN NullPath ELSE paths[1]]

\* lines 225-230, 438-444: the Zip button archives the listing shown
zipListing ==
  /\ ExplorerView
  /\ CanIssue
  /\ UNCHANGED <<explorerVars, sessionVars, cutPasted,
                 consoleVars>>
  /\ Issue(ZipCall([i \in DOMAIN currentFiles |-> currentFiles[i].path]),
           "none")

\* lines 225-230, 859-866, 888-894: Zip / Zip folder of the context menu
handleZip(target) ==
  /\ ExplorerView
  /\ target.type = "file" => ~EndsWithZip(target.name)
  /\ CanIssue
  /\ UNCHANGED <<explorerVars, sessionVars, cutPasted,
                 consoleVars>>
  /\ Issue(ZipCall(<<target.path>>), "none")

\* lines 232-236, 851-858, page.tsx lines 296-298
handleUnzip(target) ==
  /\ ExplorerView
  /\ target.type = "file"
  /\ EndsWithZip(target.name)
  /\ CanIssue
  /\ UNCHANGED <<explorerVars, sessionVars, cutPasted,
                 consoleVars>>
  /\ Issue([op |-> "unzip", path |-> target.path], "none")

\* ------------------------------------------------- console view handlers
\* page.tsx line 52, TabNavigation.tsx: the tabs the model tells apart
Tabs == {"overview", "console", "files"}

\* page.tsx lines 375-441: a click on another tab.  The panel of the old tab
\* is unmounted and loses its state, the panel of the new tab is mounted in
\* its initial state; a ConsoleOutput runs its scroll effect at mount.
onTabChange(tab) ==
  /\ MainView
  /\ tab # activeTab
  /\ activeTab' = tab
  /\ autoScroll' = TRUE
  /\ scrollTop' = IF tab \in {"overview", "console"}
                    THEN MaxScrollTop(consoleOutput) ELSE 0
  /\ currentPath' = EmptyPath
  /\ editingFile' = NullPath
  /\ fileContent' = ""
  /\ editorReadOnly' = FALSE
  /\ clipboard' = [action |-> "", path |-> NullPath]
  /\ UNCHANGED <<sessionVars, pending, cutPasted, logText>>

\* ConsoleOutput.tsx line 39: the distance from the bottom under which the
\* view counts as being at the bottom
Tolerance == 50

\* the scroll positions the model tells apart
ScrollStep == 10

ScrollPositions(buffer) ==
  {k * ScrollStep : k \in 0..(MaxScrollTop(buffer) \div ScrollStep)}
    \cup {MaxScrollTop(buffer)}

\* ConsoleOutput.tsx line 39
IsAtBottom(top) ==
  ScrollHeight(consoleOutput) - top - ClientHeight < Tolerance

\* ConsoleOutput.tsx lines 35-41 and 28-33: a scroll event with the view at
\* top; the effect runs again when the flag has become true
handleScroll(top) ==
  /\ ConsoleShown
  /\ top \in ScrollPositions(consoleOutput)
  /\ top # scrollTop
  /\ autoScroll' = IsAtBottom(top)
  /\ scrollTop' = IF IsAtBottom(top) /\ ~autoScroll
                    THEN MaxScrollTop(consoleOutput) ELSE top
  /\ UNCHANGED <<activeTab, logText, sessionVars, explorerVars, pending,
                 cutPasted>>

\* ConsoleOutput.tsx lines 150-160 (254-264): the button shown while
\* auto-scroll is off
jumpToBottom ==
  /\ ConsoleShown
  /\ ~autoScroll
  /\ autoScroll' = TRUE
  /\ scrollTop' = MaxScrollTop(consoleOutput)
  /\ UNCHANGED <<activeTab, logText, sessionVars, explorerVars, pending,
                 cutPasted>>

\* A string is held as the list of its pieces: "[", "]", " " and the line
\* feed are pieces of their own, any other piece is a run of characters that
\* holds none of these four.  A ConsoleMessage is a record of such strings
\* whose optional members may be missing.

\* String.prototype.toUpperCase, piece by piece
UpperCaseOf(piece) ==
  CASE piece = "info" -> "INFO"
    [] piece = "error" -> "ERROR"
    [] piece = "undefined" -> "UNDEFINED"
    [] OTHER -> piece

\* what a template literal makes of a member: its text, or "undefined"
Interpolate(msg, member) ==
  IF member \in DOMAIN msg THEN msg[member] ELSE <<"undefined">>

\* line 73: msg.type?.toUpperCase()
ExportType(msg) ==
  IF "type" \in DOMAIN msg
    THEN [i \in DOMAIN msg.type |-> UpperCaseOf(msg.type[i])]
    ELSE <<"undefined">>

\* line 74: msg.text || msg.data
TextOrData(msg) ==
  IF "text" \in DOMAIN msg /\ msg.text # <<>>
    THEN msg.text ELSE Interpolate(msg, "data")

\* lines 72-75
ExportLine(msg) ==
  <<"[">> \o Interpolate(msg, "timestamp") \o <<"]", " ", "[">>
    \o ExportType(msg) \o <<"]", " ">> \o TextOrData(msg)

\* lines 70-77: map, then join("\n")
RECURSIVE JoinLines(_)
JoinLines(lines) ==
  IF lines = <<>> THEN <<>>
  ELSE IF Len(lines) = 1 THEN lines[1]
  ELSE lines[1] \o <<"\n">> \o JoinLines(Tail(lines))

ExportLog(buffer) ==
  JoinLines([i \in DOMAIN buffer |-> ExportLine(buffer[i])])

\* ConsoleOutput.tsx lines 69-85, 110-116: the Download logs button
downloadLogs ==
  /\ ConsoleShown
  /\ logText' = ExportLog(consoleOutput)
  /\ UNCHANGED <<activeTab, autoScroll, scrollTop, sessionVars, explorerVars,
                 pending, cutPasted>>

\* ------------------------------------------------------- specifications
\* The connection: the effect, its cleanup, the channel events, the
\* reconnect timer and the keepalive, over every change of target.
ConnectionFrames == {f \in Frames : f.raw = "obj" /\ f.type = "ping"}

Next ==
  \/ Mount
  \/ \E t \in Targets : ChangeTarget(t)
  \/ Unmount
  \/ \E c \in Chans : onopen(c)
  \/ \E c \in Chans, code \in CloseCodes : onclose(c, code)
  \/ \E t \in timers : ReconnectTimerFires(t)
  \/ \E c \in Chans, f \in ConnectionFrames : onmessage(c, f)

Spec == Init /\ [][Next]_vars

\* The same session with the scheduling the browser gives: a connection
\* attempt ends (it opens, or it fails and closes), a closing handshake
\* completes, and a timer that is set fires unless it is cleared.
Fairness ==
  /\ WF_vars(\E c \in Chans : onopen(c))
  /\ WF_vars(\E c \in Chans, code \in CloseCodes :
               chan[c].readyState = "CLOSING" /\ onclose(c, code))
  /\ WF_vars(\E t \in timers : ReconnectTimerFires(t))

SpecFair == Init /\ [][Next]_vars /\ Fairness

\* The controls of the mounted view over every change of target: the
\* lifecycle actions and the console command, with the frames that move the
\* status and the action flag.
ControlFrames ==
  {f \in Frames : /\ f.raw = "obj"
                  /\ \/ f.type = "info" /\ f.data = "D1"
                     \/ f.type = "status" /\ f.data \in {"online", "offline"}}

NextControl ==
  \/ Mount
  \/ \E t \in Targets : ChangeTarget(t)
  \/ \E c \in Chans : onopen(c)
  \/ \E c \in Chans, code \in CloseCodes : onclose(c, code)
  \/ \E t \in timers : ReconnectTimerFires(t)
  \/ \E c \in Chans, f \in ControlFrames : onmessage(c, f)
  \/ startServer
  \/ stopServer
  \/ restartServer
  \/ sendWebSocketCommand

SpecControl == Init /\ [][NextControl]_vars

\* The dispatcher: every frame the remote side can send, with the lifecycle
\* actions and the EULA gate, on the channel of a view whose target does not
\* change.
NextDispatch ==
  \/ Mount
  \/ Unmount
  \/ \E c \in Chans : onopen(c)
  \/ \E c \in Chans, code \in CloseCodes : onclose(c, code)
  \/ \E t \in timers : ReconnectTimerFires(t)
  \/ \E c \in Chans, f \in Frames : onmessage(c, f)
  \/ startServer
  \/ stopServer
  \/ restartServer
  \/ acceptEula
  \/ eulaPostResolved
  \/ eulaAccepted
  \/ eulaPostRejected
  \/ declineEula

SpecDispatch == Init /\ [][NextDispatch]_vars

\* The explorer specifications start in the main view of a mounted session:
\* the channel is open, the info snapshot has been applied and the Files tab
\* is shown.
MainViewSession ==
  /\ phase = "mounted"
  /\ serverName = "a"
  /\ chan = [c \in Chans |->
               IF c = 1 THEN [readyState |-> "OPEN", target |-> "a",
                              sent |-> <<>>]
                        ELSE NoChan]
  /\ socket = 1
  /\ isReconnecting = FALSE
  /\ reconnectTimeoutRef = 0
  /\ timers = {}
  /\ cleanupWs = 1
  /\ loading = FALSE
  /\ error = ""
  /\ actionInProgress = ""
  /\ serverDetails = Details("D1")
  /\ showEulaModal = FALSE
  /\ eulaPc = "idle"
  /\ pings = [c \in Chans |-> 0]
  /\ rejected = FALSE
  /\ inFlight = ""
  /\ nFrames = 0
  /\ InitFilesExplorer

InitMainView ==
  /\ MainViewSession
  /\ consoleOutput = <<>>
  /\ consoleRecv = <<>>
  /\ InitConsoleView("files")

\* part_002 lines 30-38: the ServerFile entries a listing is made of (the
\* tree reads path, type, size and modified)
ListingEntries ==
  {[path |-> <<"a", "">>, type |-> "directory", size |-> NullSize,
    modified |-> "t1"],
   [path |-> <<"a", "b.txt">>, type |-> "file", size |-> 10,
    modified |-> "t2"],
   [path |-> <<"c.txt">>, type |-> "file", size |-> 10, modified |-> "t3"],
   [path |-> <<"D">>, type |-> "directory", size |-> NullSize,
    modified |-> "t4"],
   [path |-> <<"log">>, type |-> "file", size |-> 10, modified |-> "t5"]}

\* the listings of at most MaxListing distinct entries, in every order
Listings ==
  UNION {{s \in [1..n -> ListingEntries] :
            \A i, j \in 1..n : i # j => s[i] # s[j]} : n \in 0..MaxListing}

\* The listing shown for a file list and a current directory: the file list
\* is any listing, the directory any the user can walk to.
InitListing ==
  /\ InitMainView
  /\ files \in Listings

NextListing ==
  \/ \E i \in DOMAIN currentFiles : openDirectory(currentFiles[i])
  \/ \E k \in 0..Len(Parts(currentPath)) : navigateToPath(k)

SpecListing == InitListing /\ [][NextListing]_vars

\* part_002 lines 41-45: FileChangeEvent
ChangeEvents == {"added", "modified", "deleted"}

ChangePaths == {<<"a">>, <<"a", "b.txt">>, <<"c.txt">>}

ChangeLists ==
  UNION {[1..n -> [event : ChangeEvents, path : ChangePaths]] :
           n \in 0..MaxChanges}

\* part_002 lines 49-57: the file envelopes; file_init carries no changes
TreeFrames ==
  {[raw |-> "obj", type |-> "file_init", data |-> l, changes |-> <<>>] :
     l \in Listings}
  \cup {[raw |-> "obj", type |-> "file_update", data |-> l, changes |-> ch] :
          l \in Listings, ch \in ChangeLists}

\* The file list under every file_init and file_update envelope, with the
\* navigation of the explorer.
InitTree ==
  /\ InitMainView
  /\ files = <<>>

NextTree ==
  \/ \E c \in Chans, f \in TreeFrames : onmessage(c, f)
  \/ \E i \in DOMAIN currentFiles : openDirectory(currentFiles[i])
  \/ \E k \in 0..Len(Parts(currentPath)) : navigateToPath(k)

SpecTree == InitTree /\ [][NextTree]_vars

\* The editor: the files of a listing opened from their row or from the
\* context menu, edited, saved and closed, with every outcome of the reads,
\* writes and downloads in flight.
EditorListing ==
  << [path |-> <<"c.txt">>, type |-> "file", size |-> 10],
     [path |-> <<"b.txt">>, type |-> "file", size |-> 10],
     [path |-> <<"w.zip">>, type |-> "file", size |-> 10],
     [path |-> <<"big.log">>, type |-> "file", size |-> MaxReadableSize + 1] >>

EditorFrames ==
  {[raw |-> "obj", type |-> "file_init", data |-> EditorListing,
    changes |-> <<>>]}

NextEditor ==
  \/ \E c \in Chans, f \in EditorFrames : onmessage(c, f)
  \/ \E i \in DOMAIN currentFiles : handleFileClick(currentFiles[i])
  \/ \E i \in DOMAIN currentFiles : contextMenuOpen(currentFiles[i])
  \/ \E i \in DOMAIN currentFiles : handleDownload(currentFiles[i])
  \/ \E text \in EditedContents : editContent(text)
  \/ handleSave
  \/ closeEditor
  \/ \E i \in DOMAIN pending : callResolved(i)
  \/ \E i \in DOMAIN pending : callRejected(i)

SpecEditor == InitTree /\ [][NextEditor]_vars

\* The classification of a node: one node of every name, kind and size of
\* the model, opened from its row or from the context menu.
ReadableSizes == {NullSize, 0, 10, MaxReadableSize, MaxReadableSize + 1}

ReadableEntries ==
  [path : {<<name>> : name \in Names}, type : {"file", "directory"},
   size : ReadableSizes]

InitReadable ==
  /\ InitMainView
  /\ files \in {<<entry>> : entry \in ReadableEntries}

NextReadable ==
  \/ \E i \in DOMAIN currentFiles : handleFileClick(currentFiles[i])
  \/ \E i \in DOMAIN currentFiles : contextMenuOpen(currentFiles[i])
  \/ \E i \in DOMAIN currentFiles : openDirectory(currentFiles[i])
  \/ \E k \in 0..Len(Parts(currentPath)) : navigateToPath(k)
  \/ closeEditor
  \/ \E i \in DOMAIN pending : callResolved(i)
  \/ \E i \in DOMAIN pending : callRejected(i)

SpecReadable == InitReadable /\ [][NextReadable]_vars

\* The clipboard and the other file operations of the explorer, with every
\* outcome of the calls in flight.
FileOpsListing ==
  << [path |-> <<"a", "">>, type |-> "directory", size |-> NullSize],
     [path |-> <<"c.txt">>, type |-> "file", size |-> 10],
     [path |-> <<"w.zip">>, type |-> "file", size |-> 10] >>

FileOpsFrames ==
  {[raw |-> "obj", type |-> "file_init", data |-> FileOpsListing,
    changes |-> <<>>]}

PasteDestinations ==
  {currentPath}
    \cup {currentFiles[i].path :
            i \in {j \in DOMAIN currentFiles :
                     currentFiles[j].type = "directory"}}

NextFileOps ==
  \/ \E c \in Chans, f \in FileOpsFrames : onmessage(c, f)
  \/ \E i \in DOMAIN currentFiles : openDirectory(currentFiles[i])
  \/ \E k \in 0..Len(Parts(currentPath)) : navigateToPath(k)
  \/ \E i \in DOMAIN currentFiles : handleCopy(currentFiles[i])
  \/ \E i \in DOMAIN currentFiles : handleCut(currentFiles[i])
  \/ \E d \in PasteDestinations : handlePaste(d)
  \/ clearClipboard
  \/ onFileInputChange
  \/ \E i \in DOMAIN currentFiles : handleDelete(currentFiles[i])
  \/ \E i \in DOMAIN currentFiles, n \in {"log"} :
       handleRename(currentFiles[i], n)
  \/ zipListing
  \/ \E i \in DOMAIN currentFiles : handleZip(currentFiles[i])
  \/ \E i \in DOMAIN currentFiles : handleUnzip(currentFiles[i])
  \/ \E i \in DOMAIN pending : callResolved(i)
  \/ \E i \in DOMAIN pending : callRejected(i)

SpecFileOps == InitTree /\ [][NextFileOps]_vars

\* The console view of a session that has received some records: scrolling,
\* the jump to the bottom, new records and the change of tab.
ScrollFrames ==
  {f \in Frames :
     f.raw = "obj" /\ f.type = "console" /\ f.data \in {"m1", "m2"}}

InitScroll ==
  /\ MainViewSession
  /\ files = <<>>
  /\ consoleOutput = <<"m1", "m2", "m1">>
  /\ consoleRecv = consoleOutput
  /\ activeTab = "console"
  /\ autoScroll = TRUE
  /\ scrollTop = MaxScrollTop(consoleOutput)
  /\ logText = <<>>

NextScroll ==
  \/ \E c \in Chans, f \in ScrollFrames : onmessage(c, f)
  \/ \E top \in ScrollPositions(consoleOutput) : handleScroll(top)
  \/ jumpToBottom
  \/ \E tab \in Tabs : onTabChange(tab)

SpecScroll == InitScroll /\ [][NextScroll]_vars

\* part_002 lines 105-110: the console records the export is applied to;
\* timestamp, text and data are optional members
ExportRecords ==
  {[type |-> <<"info">>, timestamp |-> <<"12:00">>, text |-> <<"x">>],
   [type |-> <<"error">>, timestamp |-> <<"12:01">>,
    text |-> <<"x", " ", "[", "y", "]">>],
   [type |-> <<"info">>, timestamp |-> <<"12:00">>, data |-> <<"x">>],
   [type |-> <<"info">>, text |-> <<"x">>],
   [type |-> <<"info">>, timestamp |-> <<"12:00">>,
    text |-> <<"x", "\n", "y">>]}

\* The export applied to every console buffer of at most MaxRecords records.
InitExport ==
  /\ MainViewSession
  /\ files = <<>>
  /\ consoleOutput \in UNION {[1..n -> ExportRecords] : n \in 0..MaxRecords}
  /\ consoleRecv = consoleOutput
  /\ activeTab = "console"
  /\ autoScroll = TRUE
  /\ scrollTop = MaxScrollTop(consoleOutput)
  /\ logText = <<>>

NextExport ==
  \/ downloadLogs
  \/ \E tab \in Tabs : onTabChange(tab)

SpecExport == InitExport /\ [][NextExport]_vars

\* ----------------------------------------------------------------- claims
LiveChans == {c \in Chans : Live(c)}

ChannelOpen == socket # 0 /\ chan[socket].readyState = "OPEN"

LifecycleActions == {"start", "stop", "restart"}

RECURSIVE CountIn(_, _, _)
CountIn(ch, n, kinds) ==
  IF n = 0 THEN 0
  ELSE Len(SelectSeq(ch[n].sent, LAMBDA m : m \in kinds))
         + CountIn(ch, n - 1, kinds)

LifecycleSent(ch) == CountIn(ch, MaxChan, LifecycleActions)

Pongs(c) == Len(SelectSeq(chan[c].sent, LAMBDA m : m = "pong"))

AuthoritativeStatus(f) ==
  f.raw = "obj" /\ f.type = "status" /\ f.data \in {"online", "offline"}

Malformed(f) ==
  \/ f.raw # "obj"
  \/ f.type \notin KnownTypes
  \/ f.type \in PayloadTypes /\ f.data = Undefined

\* C1: when the reconnect timer of a mounted view fires, the session
\* re-enters CONNECTING: a new channel to the current target is opened
C1_ReconnectOpensChannel ==
  [][\A t \in timers :
       (phase = "mounted" /\ ReconnectTimerFires(t)) =>
         \E c \in Chans : /\ chan[c].readyState = "NONE"
                          /\ chan'[c].readyState = "CONNECTING"
                          /\ chan'[c].target = serverName]_vars

\* C2: at most one reconnect timer is pending in every reachable state
C2_OneTimerPending == Cardinality(timers) <= 1

\* C3: after view deactivation no reconnect timer is pending and no channel
\* of the view is CONNECTING or OPEN
C3_NothingOutlivesView ==
  phase = "unmounted" => timers = {} /\ LiveChans = {}

\* C4: at most one channel of the view is CONNECTING or OPEN
C4_OneLiveChannel == Cardinality(LiveChans) <= 1

\* C5: a lifecycle action or console command issued while the channel is
\* not OPEN transmits nothing and leaves the action flag unchanged
C5_NotOpenIsDropped ==
  [][(~ChannelOpen /\ (startServer \/ stopServer \/ restartServer
                         \/ sendWebSocketCommand))
       => UNCHANGED <<chan, actionInProgress>>]_vars

\* C6: while the action flag is non-empty no lifecycle action is put on any
\* channel and issuing one leaves the flag as it is; a step transmits at most
\* one lifecycle action, and only in going from an empty to a set flag
C6_OneLifecycleInFlight ==
  [][/\ actionInProgress # "" => LifecycleSent(chan') = LifecycleSent(chan)
     /\ (actionInProgress # "" /\ (startServer \/ stopServer \/ restartServer))
          => UNCHANGED <<chan, actionInProgress>>
     /\ LifecycleSent(chan') # LifecycleSent(chan)
          => /\ LifecycleSent(chan') = LifecycleSent(chan) + 1
             /\ actionInProgress = ""
             /\ actionInProgress' # ""]_vars

\* a lifecycle action is on the wire, its flag stands, and a further
\* lifecycle action has been refused
C6_Witness ==
  /\ actionInProgress \in {"starting", "stopping", "restarting"}
  /\ LifecycleSent(chan) >= 1
  /\ rejected

C8_OnePongPerPing == \A c \in Chans : Pongs(c) = pings[c]

\* a ping was answered on a channel that is not the one the view holds
C8_Witness ==
  \E c \in Chans : pings[c] >= 1 /\ Pongs(c) = pings[c] /\ socket # c

\* C9: a malformed frame (not JSON, unknown type, or missing payload)
\* changes no state
C9_MalformedChangesNothing ==
  [][\A c \in Chans, f \in Frames :
       (Malformed(f) /\ onmessage(c, f))
         => UNCHANGED <<consoleOutput, serverDetails, actionInProgress,
                        error, loading, files>>]_vars

\* C10: the console buffer is the sequence of payloads of the well-formed
\* console envelopes received so far, in arrival order
C10_ConsoleIsReceivedPayloads == consoleOutput = consoleRecv

\* C11: on a mounted view an info envelope replaces the whole snapshot by its
\* payload and clears loading; a status envelope changes only the status
\* field of the snapshot and a player_update envelope only its players field
\* (an absent snapshot stays absent); each leaves the other snapshot fields,
\* the console buffer and the file list as they were
C11_FrameEffects ==
  [][\A c \in Chans, f \in Frames :
       (phase = "mounted" /\ f.raw = "obj" /\ onmessage(c, f)) =>
         /\ f.type = "info" =>
              /\ serverDetails' = IF f.data = Undefined
                                     THEN UndefinedDetails
                                     ELSE Details(f.data)
              /\ ~loading'
              /\ UNCHANGED <<consoleOutput, files>>
         /\ f.type = "status" =>
              /\ Truthy(serverDetails) =>
                   serverDetails' = [serverDetails EXCEPT !.status = f.data]
              /\ ~Truthy(serverDetails) => ~Truthy(serverDetails')
              /\ serverDetails'.base = serverDetails.base
              /\ serverDetails'.players = serverDetails.players
              /\ UNCHANGED <<consoleOutput, files>>
         /\ f.type = "player_update" =>
              /\ Truthy(serverDetails) =>
                   serverDetails' = [serverDetails EXCEPT !.players = f.data]
              /\ ~Truthy(serverDetails) => ~Truthy(serverDetails')
              /\ serverDetails'.base = serverDetails.base
              /\ serverDetails'.status = serverDetails.status
              /\ UNCHANGED <<consoleOutput, files>>]_vars

\* an info snapshot was applied and a status envelope has then patched its
\* status field alone
C11_Witness ==
  /\ phase = "mounted"
  /\ ~loading
  /\ serverDetails = [Details("D1") EXCEPT !.status = "starting"]
  /\ consoleOutput = <<>>
  /\ files = "[]"

TreePaths(fs) ==
  LET tree == buildFileTree(fs) IN {tree[i].path : i \in DOMAIN tree}

PrefixesOf(parts) == {SubSeq(parts, 1, k) : k \in 1..Len(parts)}

IsUnder(parts, path) ==
  Len(parts) <= Len(path) /\ SubSeq(path, 1, Len(parts)) = parts

\* one change applied to a path set: an added or modified path joins it with
\* its ancestors, a deleted path leaves it with everything below
ApplyChange(paths, ch) ==
  IF ch.event = "deleted"
    THEN {p \in paths : ~IsUnder(Parts(ch.path), p)}
    ELSE paths \cup PrefixesOf(Parts(ch.path))

RECURSIVE ApplyChanges(_, _, _)
ApplyChanges(paths, chs, i) ==
  IF i > Len(chs) THEN paths
  ELSE ApplyChanges(ApplyChange(paths, chs[i]), chs, i + 1)

\* one file_init, then file_update envelopes only
InitThenUpdates ==
  /\ fileRecv # <<>>
  /\ fileRecv[1] = "file_init"
  /\ \A i \in 2..Len(fileRecv) : fileRecv[i] = "file_update"

\* C12: after one file_init, every file_update leaves the path set of the
\* tree equal to the path set before it with the added and modified paths
\* of its change list put in and the deleted paths taken out, in list order
C12_TreeFollowsChanges ==
  [][\A c \in Chans, f \in TreeFrames :
       (InitThenUpdates /\ f.type = "file_update" /\ onmessage(c, f))
         => TreePaths(files') = ApplyChanges(TreePaths(files), f.changes, 1)]_vars

\* C13: after a file_update whose change list deletes the path of a
\* directory of the tree (and adds nothing below it afterwards), the tree
\* has no node at or below that path
C13_DeletedDirectoryIsGone ==
  [][\A c \in Chans, f \in TreeFrames :
       (InitThenUpdates /\ f.type = "file_update" /\ onmessage(c, f))
         => \A i \in DOMAIN f.changes :
              (/\ f.changes[i].event = "deleted"
               /\ \E k \in DOMAIN fileTree :
                    /\ fileTree[k].path = Parts(f.changes[i].path)
                    /\ fileTree[k].type = "directory"
               /\ \A j \in DOMAIN f.changes :
                    j > i => ~IsUnder(Parts(f.changes[i].path),
                                      Parts(f.changes[j].path)))
                => \A p \in TreePaths(files') :
                     ~IsUnder(Parts(f.changes[i].path), p)]_vars

\* the state of the explorer and of the view that C16 names
LocalState == <<files, clipboard, editingFile, fileContent, editorReadOnly>>

\* C16: when a file-backend call fails, the operation that issued it has
\* changed none of file list, clipboard, open editor file, buffer content
\* and read-only flag: not in issuing the call and not on its failure
C16_FailureChangesNothing ==
  [][\A i \in DOMAIN pending :
       callRejected(i) => (~pending[i].changed /\ UNCHANGED LocalState)]_vars

\* a name has an extension when a "." separates a last, non-empty piece
HasExtension(name) ==
  Len(DotPieces(name)) >= 2 /\ DotPieces(name)[Len(DotPieces(name))] # ""

\* text-editable as C19 states it: a file whose extension is in the
\* allow-list (letter case apart) and whose size, when known, is at most
\* 5 MiB
TextEditable(file) ==
  /\ file.type = "file"
  /\ HasExtension(file.name)
  /\ ToLowerCase(DotPieces(file.name)[Len(DotPieces(file.name))])
       \in textReadableExts
  /\ file.size = NullSize \/ file.size <= 5 * 1024 * 1024

IsOpenOf(file) == handleFileClick(file) \/ contextMenuOpen(file)

\* C17: open on a file that is not text-editable leaves the open-editor file
\* empty and issues a download of it; open on a text-editable file opens it
\* with the read-only flag clear and issues a read of it, and when that read
\* resolves on the file still open the buffer holds the fetched content
C17_OpenRoutesByKind ==
  [][/\ \A i \in DOMAIN currentFiles :
          LET file == currentFiles[i] IN
          /\ (file.type = "file" /\ ~TextEditable(file) /\ IsOpenOf(file))
               => /\ editingFile' = NullPath
                  /\ Len(pending') = Len(pending) + 1
                  /\ pending'[Len(pending')].call =
                       [op |-> "download", path |-> file.path]
          /\ (TextEditable(file) /\ IsOpenOf(file))
               => /\ editingFile' = file.path
                  /\ ~editorReadOnly'
                  /\ Len(pending') = Len(pending) + 1
                  /\ pending'[Len(pending')].call =
                       [op |-> "read", path |-> file.path]
     /\ \A k \in DOMAIN pending :
          (/\ pending[k].call.op = "read"
           /\ pending[k].call.path = editingFile
           /\ callResolved(k))
            => /\ fileContent' = RemoteContent(editingFile)
               /\ ~editorReadOnly']_vars

Writes(p) == Len(SelectSeq(p, LAMBDA item : item.call.op = "write"))

\* C18: a step puts a write in flight only by a save with the read-only flag
\* clear, and then exactly one, of the whole buffer to the path of the open
\* file; a save with the flag set puts no call in flight
C18_WriteOnlyWhenEditable ==
  [][/\ Writes(pending') > Writes(pending)
          => /\ handleSave
             /\ ~editorReadOnly
             /\ Len(pending') = Len(pending) + 1
             /\ SubSeq(pending', 1, Len(pending)) = pending
             /\ pending'[Len(pending')].call =
                  [op |-> "write", path |-> editingFile,
                   content |-> fileContent]
     /\ (handleSave /\ editorReadOnly) => pending' = pending
     /\ (handleSave /\ ~editorReadOnly)
          => Writes(pending') = Writes(pending) + 1]_vars

\* the text the user typed into the editor of c.txt is being written to
\* c.txt, and the editor has closed
C18_Witness ==
  /\ editingFile = NullPath
  /\ \E i \in DOMAIN pending :
       pending[i].call = [op |-> "write", path |-> <<"c.txt">>,
                          content |-> "edited"]

\* C19: a node is classified readable by the explorer exactly when it is
\* text-editable: a file, with an extension of the allow-list, of at most
\* 5 MiB
C19_ReadableIffTextEditable ==
  \A i \in DOMAIN fileTree :
    isReadable(fileTree[i]) <=> TextEditable(fileTree[i])

\* the destination D/basename(X); in the root it is basename(X) alone
InDirectory(D, X) ==
  IF D = EmptyPath THEN <<X[Len(X)]>> ELSE D \o <<X[Len(X)]>>

\* the calls a step adds to those in flight
Issued == SubSeq(pending', Len(pending) + 1, Len(pending'))

\* C15: with {copy, X} on the clipboard every paste into D issues one remote
\* copy from X to D/basename(X) and leaves the clipboard as it is; with
\* {cut, X} the first paste issues one remote move from X to D/basename(X),
\* and a later paste with no copy or cut in between issues no remote call.
C15_PasteFollowsClipboard ==
  [][\A D \in PasteDestinations :
       handlePaste(D) =>
         /\ clipboard.action = "copy" =>
              /\ Len(Issued) = 1
              /\ Issued[1].call =
                   [op |-> "copy", source |-> clipboard.path,
                    destination |-> InDirectory(D, clipboard.path)]
              /\ clipboard' = clipboard
         /\ clipboard.action = "cut" /\ ~cutPasted =>
              /\ Len(Issued) = 1
              /\ Issued[1].call =
                   [op |-> "move", source |-> clipboard.path,
                    destination |-> InDirectory(D, clipboard.path)]
         /\ cutPasted => Issued = <<>>]_vars

\* C20: every upload request addresses a non-empty target: sent from the
\* root (empty path) it carries the reserved sentinel, sent from any other
\* directory it carries that directory's path unchanged.
C20_UploadTargetNeverEmpty ==
  /\ [](\A i \in DOMAIN pending :
          pending[i].call.op = "upload" =>
            pending[i].call.target \notin {EmptyPath, NullPath})
  /\ [][onFileInputChange =>
          /\ Len(Issued) = 1
          /\ Issued[1].call.op = "upload"
          /\ currentPath = EmptyPath => Issued[1].call.target = Sentinel
          /\ currentPath # EmptyPath =>
               Issued[1].call.target = currentPath]_vars

\* an upload from the root and an upload from a directory are both in flight
C20_Witness ==
  \E i, j \in DOMAIN pending :
    /\ pending[i].call.op = "upload"
    /\ pending[i].call.target = Sentinel
    /\ pending[j].call.op = "upload"
    /\ pending[j].call.target # Sentinel
    /\ pending[j].call.target = currentPath

\* C21: every archive request in flight carries at least one path and is
\* named after the first path of its selection, whether it archives a single
\* node or the directory listing shown.
C21_ArchiveNamedAfterFirst ==
  \A i \in DOMAIN pending :
    pending[i].call.op = "zip" =>
      /\ pending[i].call.paths # <<>>
      /\ pending[i].call.name = pending[i].call.paths[1]

\* C22: a channel close with code 1000, at teardown or from the remote side,
\* leaves the channel CLOSED, schedules no reconnect timer and does not set
\* the reconnect-pending flag.
C22_NormalCloseIsTerminal ==
  [][\A c \in Chans :
       onclose(c, NormalClosure) =>
         /\ chan'[c].readyState = "CLOSED"
         /\ timers' = timers
         /\ reconnectTimeoutRef' = reconnectTimeoutRef
         /\ isReconnecting' = isReconnecting]_vars

\* a channel has closed and no reconnect was ever scheduled: its close code
\* was 1000
C22_Witness ==
  \E c \in Chans :
    /\ chan[c].readyState = "CLOSED"
    /\ reconnectTimeoutRef = 0
    /\ timers = {}
    /\ ~isReconnecting

\* the console frames, whose arrival is a new console record
NewConsoleRecord ==
  \E c \in Chans, f \in Frames :
    /\ f.raw = "obj"
    /\ f.type = "console"
    /\ onmessage(c, f)

\* C24: auto-scroll, once off, stays off through every scroll event and
\* every new console record; only the jump to the bottom switches it on
\* again.
C24_AutoScrollStaysOff ==
  [][/\ ~autoScroll
     /\ \/ \E top \in ScrollPositions(consoleOutput) : handleScroll(top)
        \/ NewConsoleRecord
     => ~autoScroll']_vars

\* the lines of a transcript
RECURSIVE SplitLines(_)
SplitLines(log) ==
  IF log = <<>> THEN <<>>
  ELSE IF \E i \in DOMAIN log : log[i] = "\n"
    THEN LET i == CHOOSE k \in DOMAIN log :
                    /\ log[k] = "\n"
                    /\ \A m \in 1..(k - 1) : log[m] # "\n"
         IN <<SubSeq(log, 1, i - 1)>>
              \o (IF i = Len(log) THEN <<<<>>>>
                  ELSE SplitLines(SubSeq(log, i + 1, Len(log))))
    ELSE <<log>>

\* the first place at or after from where pat stands in line, or 0
FirstAt(line, pat, from) ==
  LET hits == {i \in from..(Len(line) - Len(pat) + 1) :
                 SubSeq(line, i, i + Len(pat) - 1) = pat}
  IN IF hits = {} THEN 0 ELSE CHOOSE i \in hits : \A k \in hits : i <= k

\* a line read by the pattern [ts] [TYPE] text, the first two fields being
\* the shortest that fit
ParseLine(line) ==
  LET i == FirstAt(line, <<"]", " ", "[">>, 2)
      j == IF i = 0 THEN 0 ELSE FirstAt(line, <<"]", " ">>, i + 3)
  IN IF line = <<>> \/ line[1] # "[" \/ i = 0 \/ j = 0
       THEN [matched |-> FALSE, timestamp |-> <<>>, type |-> <<>>,
             text |-> <<>>]
       ELSE [matched |-> TRUE, timestamp |-> SubSeq(line, 2, i - 1),
             type |-> SubSeq(line, i + 3, j - 1),
             text |-> SubSeq(line, j + 2, Len(line))]

\* a record that has a text to show
NonEmptyRecord(msg) == "text" \in DOMAIN msg /\ msg.text # <<>>

\* the line gives back the record: its timestamp and text as they are, its
\* type in upper case
Recovers(line, msg) ==
  LET p == ParseLine(line) IN
  /\ p.matched
  /\ "timestamp" \in DOMAIN msg /\ p.timestamp = msg.timestamp
  /\ "type" \in DOMAIN msg /\ p.type = ExportType(msg)
  /\ p.text = msg.text

\* C23: the export holds one line per buffered record, in buffer order, and
\* the line of every non-empty record, parsed by the pattern
\* [ts] [TYPE] text, gives back the record's timestamp, type and text.
C23_ExportRoundTrips ==
  [][downloadLogs =>
       LET lines == SplitLines(logText') IN
       /\ Len(lines) = Len(consoleOutput)
       /\ \A i \in DOMAIN consoleOutput :
            NonEmptyRecord(consoleOutput[i]) =>
              Recovers(lines[i], consoleOutput[i])]_vars

\* the buffers that belong to the file at path: what a read of it returns,
\* and what the user has typed over that
BelongsTo(path) == {RemoteContent(path)} \cup EditedContents

ReadsInFlight(p, path) ==
  Len(SelectSeq(p, LAMBDA item : item.call = [op |-> "read", path |-> path]))

\* C25: a save writes to P only a buffer that derives from what a successful
\* read of P returned; and once the reads of the open file have settled, a
\* read that failed or the late read of another file has not left an
\* editable buffer that does not belong to the open file.
C25_BufferBelongsToOpenFile ==
  [][/\ (handleSave /\ SaveWrites) => fileContent \in BelongsTo(editingFile)
     /\ \A i \in DOMAIN pending :
          (/\ pending[i].call.op = "read"
           /\ callResolved(i) \/ callRejected(i)
           /\ editingFile' # NullPath
           /\ ~editorReadOnly'
           /\ ReadsInFlight(pending', editingFile') = 0)
            => fileContent' \in BelongsTo(editingFile')]_vars

\* the moves in flight that a paste of the cut of path has issued
CutMoves(p, path) ==
  Len(SelectSeq(p, LAMBDA item :
                     /\ item.call.op = "move"
                     /\ item.then = "clearClipboard"
                     /\ item.call.source = path))

\* C26: one cut of X results in at most one remote move of X: a paste issues
\* no move when a paste of the same cut has already issued one, whether or
\* not that move has returned.
C26_OneMovePerCut ==
  [][\A D \in PasteDestinations :
       (handlePaste(D) /\ clipboard.action = "cut" /\ cutPasted)
         => CutMoves(pending', clipboard.path)
              = CutMoves(pending, clipboard.path)]_vars

\* a channel to target t has been created at some time
ChannelTo(t) == \E c \in Chans : chan[c].target = t

\* a channel to another target than the current one is still live
StaleChannel ==
  \E c \in Chans : Live(c) /\ chan[c].target # serverName

\* C27: when the target of a mounted view has changed to t, then, unless the
\* view is unmounted or its target changes again, a channel to t is
\* eventually opened and the channels to the old target are eventually
\* closed, whatever state the old channel was in at the change.
C27_TargetChangeReconnects ==
  \A t \in Targets :
    /\ (phase = "mounted" /\ serverName = t /\ ~ChannelTo(t))
         ~> (ChannelTo(t) \/ phase # "mounted" \/ serverName # t)
    /\ (phase = "mounted" /\ serverName = t /\ StaleChannel)
         ~> (~StaleChannel \/ phase # "mounted" \/ serverName # t)

\* an info snapshot that tells the server is online or offline
AuthoritativeInfo(f) ==
  /\ f.raw = "obj"
  /\ f.type = "info"
  /\ f.data # Undefined
  /\ Details(f.data).status \in {"online", "offline"}

\* C28: once an info snapshot whose status is online or offline has been
\* applied, the action flag is empty.
C28_InfoClearsActionFlag ==
  [][\A c \in Chans, f \in Frames :
       (phase = "mounted" /\ AuthoritativeInfo(f) /\ onmessage(c, f))
         => actionInProgress' = ""]_vars

\* the values a well-formed error envelope gives the error state
EnvelopeErrors == {"boom"}

\* C29: whenever the error state has been set by an error envelope, the page
\* shows the error view and not the loading view, also when the envelope
\* came before any info envelope.
C29_ErrorShownNotLoading ==
  (phase = "mounted" /\ error \in EnvelopeErrors) => View = "error"

\* the entries of a listing that list the node at parts themselves
EntriesOf(fs, parts) ==
  {fs[i] : i \in {k \in DOMAIN fs : Parts(fs[k].path) = parts}}

\* C30: the tree built from a listing does not depend on the order of the
\* entries: its nodes are the non-empty prefixes of the listed paths, a node
\* that has a listing entry of its own carries the kind, size and modified
\* of that entry, and the other nodes are directories without a size.
C30_TreeIsOrderIndependent ==
  /\ TreePaths(files) =
       UNION {PrefixesOf(Parts(files[i].path)) : i \in DOMAIN files}
  /\ \A i \in DOMAIN fileTree :
       LET node == fileTree[i] IN
       /\ \A e \in EntriesOf(files, node.path) :
            /\ node.type = e.type
            /\ node.size = e.size
            /\ node.modified = e.modified
       /\ EntriesOf(files, node.path) = {} =>
            node.type = "directory" /\ node.size = NullSize

====
